---- MODULE Spec2Model ----
\* Card-grid layout of src/main.py: CardGrid geometry, the ij/xy enumerations,
\* and the word / validation / board card generators acting on one window.
EXTENDS Integers, Sequences, FiniteSets, TLC

VARIABLES
    window,     \* the oldisplay Window: size, initiated, components
    words,      \* the word list handed to the word-card generators
    card_size,  \* the card_size argument of the calls
    xy_margin,  \* the xy_margin parameter of a directly constructed CardGrid
    game,       \* GAME_PARAMS as overridden by the calls' **params
    rd,         \* number of rd.shuffle calls made so far
    ret         \* the last call: operation, exception raised, value returned

vars == <<window, words, card_size, xy_margin, game, rd, ret>>

\* ------------------------------------------------------------------ bounds

\* page sizes are 2*margin + 1 .. 2*margin + MaxExtent on each axis
MaxExtent == 3
\* card sides are 1..MaxCard, plus one side longer than the smallest page
MaxCard == 3
\* explicit margins are the default margin -MaxMarginDelta .. +MaxMarginDelta
MaxMarginDelta == 1
\* the word list holds 0..MaxWords words
MaxWords == 7
\* guess_nb is 0..MaxGuess
MaxGuess == 2
\* where boards are shuffled, page sides are 2*margin + 1 .. + MaxBoardExtent
MaxBoardExtent == 2
\* board_size is (1..MaxBoardI, 1..MaxBoardJ)
MaxBoardI == 2
MaxBoardJ == 5
\* a page of board cards holds at most MaxDisks shuffled disks
MaxDisks == 10
\* at most MaxShuffles rd.shuffle calls are followed
MaxShuffles == 2
\* the word list holds at most MaxBoardWords words where boards are shuffled
MaxBoardWords == 0

\* ------------------------------------------------------- module parameters

GRID_PARAMS ==
    [color |-> "light_grey", width |-> 1, xy_margin |-> <<10, 10>>]

WORD_PARAMS ==
    [txt_height_r |-> 6, txt_xmargin_r |-> 10, txt_ymargin_r |-> 20,
     top_txt_font |-> "consolas", top_txt_c |-> "magenta",
     bot_txt_font |-> "None", bot_txt_c |-> "dodger_blue",
     bot_txt_rect |-> "lavender", grid_c |-> GRID_PARAMS.color]

GAME_PARAMS ==
    [board_size |-> <<5, 5>>, guess_nb |-> 8,
     t1_color |-> "tomato", t2_color |-> "corn_flower_blue",
     neutral_color |-> "pale_golden_rod", death_color |-> "black",
     disk_r |-> 6, grid_c |-> GRID_PARAMS.color]

\* ------------------------------------------------------------ input domains

PageSides ==
    { 2 * GRID_PARAMS.xy_margin[1] + e : e \in 1..MaxExtent }

PageSizes == PageSides \X PageSides

CardSides ==
    (1..MaxCard) \cup { 2 * GRID_PARAMS.xy_margin[1] + 2 }

CardSizes == CardSides \X CardSides

MarginSides ==
    { GRID_PARAMS.xy_margin[1] + d : d \in (0 - MaxMarginDelta)..MaxMarginDelta }

Margins == MarginSides \X MarginSides

\* the k-th word of the dictionary, lower-cased by load_words
Word(k) == [case |-> "lower", id |-> k]

\* load_words then rd.shuffle: n distinct lower-case words, in some order
WordList(n) == [k \in 1..n |-> Word(k)]

\* str.upper()
Upper(w) == [w EXCEPT !.case = "upper"]

\* ------------------------------------------------------------------ CardGrid

\* number of whole cards along one axis, ignoring the margin
CellCountNoMargin(page, margin, card) == page \div card

\* (page - 2*margin) // card
CellCount(page, margin, card) == (page - 2 * margin) \div card

\* CardGrid.__init__: the constructed object, or the exception raised
CardGrid(size, csize, color, margin) ==
    LET page_x == size[1]
        page_y == size[2]
        x_margin == margin[1]
        y_margin == margin[2]
        card_x == csize[1]
        card_y == csize[2]
    IN  IF ~(page_x > 2 * x_margin) \/ ~(page_y > 2 * y_margin)
        THEN [raised |-> "AssertionError"]
        ELSE IF ~(page_x > card_x) \/ ~(page_y > card_y)
        THEN [raised |-> "AssertionError"]
        ELSE IF card_x = 0 \/ card_y = 0
        THEN [raised |-> "ZeroDivisionError"]
        ELSE LET i_max == CellCount(page_y, y_margin, card_y)
                 j_max == CellCount(page_x, x_margin, card_x)
             IN  [raised |-> "none",
                  params |-> [color |-> color, width |-> GRID_PARAMS.width,
                              xbounds |-> <<x_margin, page_x - x_margin>>,
                              ybounds |-> <<y_margin, page_y - y_margin>>],
                  size |-> size,
                  i_max |-> i_max,
                  j_max |-> j_max,
                  start |-> <<x_margin, y_margin>>,
                  dx |-> card_x,
                  dy |-> card_y,
                  cell_nb |-> i_max * j_max]

\* Grid(self.dx, self.dy, **self.params), the component CardGrid.display appends
GridComponent(grid) ==
    [type |-> "Grid", dx |-> grid.dx, dy |-> grid.dy,
     xbounds |-> grid.params.xbounds, ybounds |-> grid.params.ybounds,
     color |-> grid.params.color, width |-> grid.params.width,
     inner_grid |-> FALSE]

\* the cell of the k-th item (zero-based), with rows and columns swapped
IjCellSwapped(grid, k) == <<k \div grid.i_max, k % grid.i_max>>

\* i = k // j_max, j = k % j_max
IjCell(grid, k) == <<k \div grid.j_max, k % grid.j_max>>

RECURSIVE IjLoop(_, _, _, _)
\* the for-loop of ij_enum from zero-based index k on, acc the pairs yielded so far
IjLoop(grid, items, k, acc) ==
    IF k >= Len(items)
    THEN [raised |-> "none", out |-> acc]
    ELSE IF grid.j_max = 0
    THEN [raised |-> "ZeroDivisionError", out |-> acc]
    ELSE IF IjCell(grid, k)[1] >= grid.i_max
    THEN [raised |-> "none", out |-> acc]
    ELSE IjLoop(grid, items, k + 1,
                Append(acc, <<IjCell(grid, k), items[k + 1]>>))

\* CardGrid.ij_enum: logger has no attribute 'waring', so the overflow branch
\* raises AttributeError before the first item is yielded
ij_enum(grid, items) ==
    IF Len(items) > grid.cell_nb
    THEN [raised |-> "AttributeError", out |-> <<>>]
    ELSE IjLoop(grid, items, 0, <<>>)

\* (x0 + j*dx, y0 + i*dy)
CellXY(grid, ij) ==
    <<grid.start[1] + ij[2] * grid.dx, grid.start[2] + ij[1] * grid.dy>>

\* CardGrid.xy_enum
xy_enum(grid, items) ==
    LET r == ij_enum(grid, items)
    IN  [raised |-> r.raised,
         out |-> [k \in 1..Len(r.out) |->
                    <<CellXY(grid, r.out[k][1]), r.out[k][2]>>]]

\* ------------------------------------------------------------ window utils

\* the components list left as it was
KeepComponents(components) == components

\* window.components = []
ClearComponents(components) == << >>

\* build_display_grid on the default margin: the grid, and the components
\* after grid.display(); nothing is appended when the constructor raises
build_display_grid(win, components, csize, color) ==
    LET g == CardGrid(win.size, csize, color, GRID_PARAMS.xy_margin)
    IN  [raised |-> g.raised,
         grid |-> g,
         components |-> IF g.raised = "none"
                        THEN Append(components, GridComponent(g))
                        ELSE components]

\* screenshot(window, path): the file written, holding the rendered components
screenshot(win, path) == [path |-> path, screen |-> win.components]

\* --------------------------------------------------------------- word cards

\* the three primitives of one word card whose cell has its top-left at xy
WordCard(grid, xy, word) ==
    LET x == xy[1]
        y == xy[2]
        txt_height == grid.dy \div WORD_PARAMS.txt_height_r
        txt_xmargin == grid.dx \div WORD_PARAMS.txt_xmargin_r
        txt_ymargin == grid.dy \div WORD_PARAMS.txt_ymargin_r
        bot_txt_font == IF WORD_PARAMS.bot_txt_font = "None"
                        THEN WORD_PARAMS.top_txt_font
                        ELSE WORD_PARAMS.bot_txt_font
        bot_txt_c == IF WORD_PARAMS.bot_txt_c = "None"
                     THEN WORD_PARAMS.top_txt_c
                     ELSE WORD_PARAMS.bot_txt_c
        ym == y + grid.dy \div 2
    IN  << [type |-> "Text", text |-> Upper(word),
            pos |-> <<x + txt_xmargin, ym - txt_ymargin>>,
            height |-> txt_height, align |-> "bot-left", rotate |-> 0,
            color |-> WORD_PARAMS.top_txt_c, font |-> WORD_PARAMS.top_txt_font],
           [type |-> "Rectangle",
            pos |-> <<x + txt_xmargin, ym + txt_ymargin \div 2>>,
            size |-> <<grid.dx - (3 * txt_xmargin) \div 2,
                       txt_height + txt_ymargin>>,
            color |-> WORD_PARAMS.bot_txt_rect, align |-> "default"],
           [type |-> "Text", text |-> Upper(word),
            pos |-> <<x + grid.dx - txt_xmargin, ym + txt_ymargin>>,
            height |-> txt_height, align |-> "top-right", rotate |-> 180,
            color |-> bot_txt_c, font |-> bot_txt_font] >>

RECURSIVE WordCards(_, _, _)
\* the primitives of the placements k.. of an enumeration, in order
WordCards(grid, placed, k) ==
    IF k > Len(placed)
    THEN << >>
    ELSE WordCard(grid, placed[k][1], placed[k][2])
             \o WordCards(grid, placed, k + 1)

\* words[:n]
Truncated(ws, n) == SubSeq(ws, 1, n)

\* display_word_cards: the exception raised and the components left
display_word_cards(win, ws, csize) ==
    IF ~win.initiated
    THEN [raised |-> "AssertionError", components |-> win.components]
    ELSE LET b == build_display_grid(win, ClearComponents(win.components),
                                     csize, WORD_PARAMS.grid_c)
         IN  IF b.raised # "none"
             THEN [raised |-> b.raised, components |-> b.components]
             ELSE LET kept == IF Len(ws) > b.grid.cell_nb
                              THEN Truncated(ws, b.grid.cell_nb)
                              ELSE ws
                      e == xy_enum(b.grid, kept)
                  IN  [raised |-> e.raised,
                       components |-> b.components
                                        \o WordCards(b.grid, e.out, 1)]

\* words[i:i+n], i zero-based
Slice(ws, i, n) ==
    SubSeq(ws, i + 1, IF i + n <= Len(ws) THEN i + n ELSE Len(ws))

\* the slice of page count (one-based) restarts at the first word
SliceOffsetFirst(i, count, n) == 0

\* the zero-based index where the slice of page count (one-based) starts
SliceOffset(i, count, n) == i

RECURSIVE WordPages(_, _, _, _, _, _)
\* the loop of create_word_cards from zero-based offset i, page count, on
WordPages(win, ws, csize, n, count, saved) ==
    LET i == (count - 1) * n
    IN  IF i >= Len(ws)
        THEN [raised |-> "none", components |-> win.components, saved |-> saved]
        ELSE LET d == display_word_cards(
                          win, Slice(ws, SliceOffset(i, count, n), n), csize)
                 w == [win EXCEPT !.components = d.components]
             IN  IF d.raised # "none"
                 THEN [raised |-> d.raised, components |-> d.components,
                       saved |-> saved]
                 ELSE WordPages(w, ws, csize, n, count + 1,
                                Append(saved,
                                       screenshot(w, <<"word_cards", count>>)))

\* create_word_cards: range(0, len(words), 0) raises ValueError
create_word_cards(win, ws, csize) ==
    LET g == CardGrid(win.size, csize, GRID_PARAMS.color, GRID_PARAMS.xy_margin)
    IN  IF g.raised # "none"
        THEN [raised |-> g.raised, components |-> win.components,
              saved |-> << >>]
        ELSE IF g.cell_nb = 0
        THEN [raised |-> "ValueError", components |-> win.components,
              saved |-> << >>]
        ELSE WordPages(win, ws, csize, g.cell_nb, 1, << >>)

\* --------------------------------------------------------- validation cards

\* [color] * n
Repeat(color, n) == [k \in 1..n |-> color]

\* Color.mix(c1, c2)
Mix(c1, c2) == <<"mix", c1, c2>>

\* the swatch colours without the blended one
ValidationColorsNoMix(params) ==
    Repeat(params.t1_color, params.guess_nb)
        \o Repeat(params.t2_color, params.guess_nb)

\* [t1] * guess_nb + [t2] * guess_nb + [mix(t1, t2)]
ValidationColors(params) ==
    Repeat(params.t1_color, params.guess_nb)
        \o Repeat(params.t2_color, params.guess_nb)
        \o << Mix(params.t1_color, params.t2_color) >>

\* the swatch of the cell whose top-left is xy
Swatch(grid, xy, color) ==
    [type |-> "Rectangle",
     pos |-> <<xy[1] + grid.dx \div 2, xy[2] + grid.dy \div 2>>,
     size |-> <<grid.dx \div 3, grid.dy \div 3>>,
     color |-> color, align |-> "center"]

\* display_validation_cards: the exception raised and the components left
display_validation_cards(win, csize, params) ==
    IF ~win.initiated
    THEN [raised |-> "AssertionError", components |-> win.components]
    ELSE LET b == build_display_grid(win, ClearComponents(win.components),
                                     csize, params.grid_c)
             colors == ValidationColors(params)
         IN  IF b.raised # "none"
             THEN [raised |-> b.raised, components |-> b.components]
             ELSE IF ~(Len(colors) <= b.grid.i_max * b.grid.j_max)
             THEN [raised |-> "AssertionError", components |-> b.components]
             ELSE LET e == xy_enum(b.grid, colors)
                  IN  [raised |-> e.raised,
                       components |-> b.components \o
                           [k \in 1..Len(e.out) |->
                               Swatch(b.grid, e.out[k][1], e.out[k][2])]]

\* -------------------------------------------------------------- board cards

\* [t1, t2] * n
TeamColors(params, n) ==
    [k \in 1..(2 * n) |-> IF k % 2 = 1 THEN params.t1_color ELSE params.t2_color]

\* colors = [t1, t2] * (cell_nb // 2): the line colour of each board card
BoardColors(params, grid) == TeamColors(params, grid.cell_nb \div 2)

\* the tokens of a card without the extra token of its owner
CardColorsNoOwner(params, color) ==
    Repeat(params.t1_color, params.guess_nb)
        \o Repeat(params.t2_color, params.guess_nb)
        \o << params.death_color >>

\* [t1] * guess_nb + [t2] * guess_nb + [color, death]
CardColors(params, color) ==
    Repeat(params.t1_color, params.guess_nb)
        \o Repeat(params.t2_color, params.guess_nb)
        \o << color, params.death_color >>

\* number of elements of the sequence s equal to c
Count(s, c) == Cardinality({k \in 1..Len(s) : s[k] = c})

\* the sequence s without its k-th element
Without(s, k) == SubSeq(s, 1, k - 1) \o SubSeq(s, k + 1, Len(s))

RECURSIVE Shuffles(_)
\* rd.shuffle(s): every rearrangement of s (rd is the random module bound at
\* line 330 when main.py runs as a script)
Shuffles(s) ==
    IF s = << >>
    THEN {<< >>}
    ELSE UNION {{<<s[k]>> \o t : t \in Shuffles(Without(s, k))} :
                k \in {i \in 1..Len(s) : \A h \in 1..(i - 1) : s[h] # s[i]}}

\* Grid(cell_dx, cell_dy, xbounds, ybounds, color, inner_grid=True)
InnerGrid(grid, params, xy, color) ==
    [type |-> "Grid",
     dx |-> grid.dx \div params.board_size[1],
     dy |-> grid.dy \div params.board_size[2],
     xbounds |-> <<xy[1], xy[1] + grid.dx>>,
     ybounds |-> <<xy[2], xy[2] + grid.dy>>,
     color |-> color, width |-> "default", inner_grid |-> TRUE]

\* the disks of one card: positions (x + i*cell_dx, y + j*cell_dy), i outer,
\* zipped with the shuffled colours
Disks(grid, params, xy, card_colors) ==
    LET cell_dx == grid.dx \div params.board_size[1]
        cell_dy == grid.dy \div params.board_size[2]
        cell_dj == params.board_size[2]
        radius == (IF cell_dx <= cell_dx THEN cell_dx ELSE cell_dx)
                      \div params.disk_r
    IN  [p \in 1..Len(card_colors) |->
            LET i == (p - 1) \div cell_dj
                j == (p - 1) % cell_dj
            IN  [type |-> "Disk",
                 pos |-> <<xy[1] + i * cell_dx + cell_dx \div 2,
                           xy[2] + j * cell_dy + cell_dy \div 2>>,
                 radius |-> radius,
                 color |-> card_colors[p]]]

RECURSIVE BoardCards(_, _, _, _, _)
\* the loop of display_board_cards from the k-th placement on: every outcome,
\* one per choice of the shuffles
BoardCards(grid, params, placed, k, components) ==
    IF k > Len(placed)
    THEN {[raised |-> "none", components |-> components, shuffled |-> k - 1]}
    ELSE LET xy == placed[k][1]
             color == placed[k][2]
             inner == Append(components, InnerGrid(grid, params, xy, color))
             card_colors == CardColors(params, color)
             positions == params.board_size[1] * params.board_size[2]
         IN  IF ~(Len(card_colors) < positions)
             THEN {[raised |-> "AssertionError", components |-> inner,
                    shuffled |-> k - 1]}
             ELSE UNION {
                    BoardCards(grid, params, placed, k + 1,
                               inner \o Disks(grid, params, xy, sh)) :
                    sh \in Shuffles(
                        card_colors \o
                        Repeat(params.neutral_color,
                               positions - Len(card_colors)))}

\* display_board_cards: every outcome (exception raised, components left,
\* number of shuffles made)
display_board_cards(win, csize, params) ==
    IF ~win.initiated
    THEN {[raised |-> "AssertionError", components |-> win.components,
           shuffled |-> 0]}
    ELSE LET b == build_display_grid(win, ClearComponents(win.components),
                                     csize, params.grid_c)
         IN  IF b.raised # "none"
             THEN {[raised |-> b.raised, components |-> b.components,
                    shuffled |-> 0]}
             ELSE LET e == xy_enum(b.grid, BoardColors(params, b.grid))
                  IN  IF e.raised # "none"
                      THEN {[raised |-> e.raised, components |-> b.components,
                             shuffled |-> 0]}
                      ELSE BoardCards(b.grid, params, e.out, 1, b.components)

\* create_board_cards: grid_nb = 2 pages, each displayed then saved
create_board_cards(win, csize, params) ==
    UNION {
        IF o1.raised # "none"
        THEN {[raised |-> o1.raised, components |-> o1.components,
               shuffled |-> o1.shuffled, saved |-> << >>]}
        ELSE LET w1 == [win EXCEPT !.components = o1.components]
                 s1 == << screenshot(w1, <<"board_cards", 1>>) >>
             IN  { IF o2.raised # "none"
                   THEN [raised |-> o2.raised, components |-> o2.components,
                         shuffled |-> o1.shuffled + o2.shuffled, saved |-> s1]
                   ELSE [raised |-> "none", components |-> o2.components,
                         shuffled |-> o1.shuffled + o2.shuffled,
                         saved |-> Append(s1,
                             screenshot([win EXCEPT !.components = o2.components],
                                        <<"board_cards", 2>>))] :
                   o2 \in display_board_cards(w1, csize, params) } :
        o1 \in display_board_cards(win, csize, params) }

\* the number of rd.shuffle calls and of disks one display_board_cards call
\* on this window would make
ShuffleLoad(win, csize, params) ==
    LET g == CardGrid(win.size, csize, params.grid_c, GRID_PARAMS.xy_margin)
        positions == params.board_size[1] * params.board_size[2]
    IN  IF win.initiated /\ g.raised = "none"
           /\ 2 * params.guess_nb + 2 < positions
        THEN [shuffles |-> 2 * (g.cell_nb \div 2),
              disks |-> 2 * (g.cell_nb \div 2) * positions]
        ELSE [shuffles |-> 0, disks |-> 0]

\* ------------------------------------------------------------------- states

NoCall == [op |-> "none", raised |-> "none"]

\* main's parameter block: window = Window(size=page_size), the card size,
\* words = load_words() then rd.shuffle(words); the window is not yet open
InitParams ==
    /\ \E s \in PageSizes :
         window = [size |-> s, initiated |-> FALSE, components |-> <<>>]
    /\ \E n \in 0..MaxWords : words = WordList(n)
    /\ card_size \in CardSizes
    /\ rd = 0
    /\ ret = NoCall

\* the grids of the card generators use the default margin of GRID_PARAMS
Init ==
    /\ InitParams
    /\ xy_margin = GRID_PARAMS.xy_margin
    /\ \E g \in 0..MaxGuess : game = [GAME_PARAMS EXCEPT !.guess_nb = g]

\* a grid constructed directly may be given any margin
InitGrid ==
    /\ InitParams
    /\ xy_margin \in Margins
    /\ game = GAME_PARAMS

\* the board generators are given any board size and guess number
InitBoard ==
    /\ InitParams
    /\ Len(words) <= MaxBoardWords
    /\ \A a \in 1..2 :
         window.size[a] <= 2 * GRID_PARAMS.xy_margin[a] + MaxBoardExtent
    /\ xy_margin = GRID_PARAMS.xy_margin
    /\ \E bs \in (1..MaxBoardI) \X (1..MaxBoardJ), g \in 0..MaxGuess :
         game = [GAME_PARAMS EXCEPT !.board_size = bs, !.guess_nb = g]

\* window.open()
WindowOpen ==
    /\ ~window.initiated
    /\ window' = [window EXCEPT !.initiated = TRUE]
    /\ ret' = [op |-> "open", raised |-> "none"]
    /\ UNCHANGED <<words, card_size, xy_margin, game, rd>>

\* ------------------------------------------------------- grid operations

\* CardGrid(window, card_size, xy_margin=xy_margin)
NewCardGrid ==
    LET g == CardGrid(window.size, card_size, GRID_PARAMS.color, xy_margin)
    IN  /\ ret' = [op |-> "CardGrid", raised |-> g.raised, grid |-> g]
        /\ UNCHANGED <<window, words, card_size, xy_margin, game, rd>>

\* list(grid.ij_enum(words)) on a constructed grid
IjEnumCall ==
    LET g == CardGrid(window.size, card_size, GRID_PARAMS.color, xy_margin)
    IN  /\ g.raised = "none"
        /\ LET r == ij_enum(g, words)
           IN  ret' = [op |-> "ij_enum", raised |-> r.raised,
                       grid |-> g, out |-> r.out]
        /\ UNCHANGED <<window, words, card_size, xy_margin, game, rd>>

\* list(grid.xy_enum(words)) on a constructed grid
XyEnumCall ==
    LET g == CardGrid(window.size, card_size, GRID_PARAMS.color, xy_margin)
    IN  /\ g.raised = "none"
        /\ LET r == xy_enum(g, words)
           IN  ret' = [op |-> "xy_enum", raised |-> r.raised,
                       grid |-> g, out |-> r.out]
        /\ UNCHANGED <<window, words, card_size, xy_margin, game, rd>>

NextGrid == NewCardGrid \/ IjEnumCall \/ XyEnumCall

SpecGrid == InitGrid /\ [][NextGrid]_vars

\* ---------------------------------------------------------- card generators

\* display_word_cards(window, words, card_size)
DisplayWordCardsCall ==
    LET d == display_word_cards(window, words, card_size)
    IN  /\ window' = [window EXCEPT !.components = d.components]
        /\ ret' = [op |-> "display_word_cards", raised |-> d.raised]
        /\ UNCHANGED <<words, card_size, xy_margin, game, rd>>

\* create_word_cards(window, words, card_size, directory)
CreateWordCardsCall ==
    LET c == create_word_cards(window, words, card_size)
    IN  /\ window' = [window EXCEPT !.components = c.components]
        /\ ret' = [op |-> "create_word_cards", raised |-> c.raised,
                   saved |-> c.saved]
        /\ UNCHANGED <<words, card_size, xy_margin, game, rd>>

\* display_validation_cards(window, card_size, guess_nb=...)
DisplayValidationCardsCall ==
    LET d == display_validation_cards(window, card_size, game)
    IN  /\ window' = [window EXCEPT !.components = d.components]
        /\ ret' = [op |-> "display_validation_cards", raised |-> d.raised]
        /\ UNCHANGED <<words, card_size, xy_margin, game, rd>>

\* create_validation_cards(window, card_size, directory, guess_nb=...)
CreateValidationCardsCall ==
    LET d == display_validation_cards(window, card_size, game)
        w == [window EXCEPT !.components = d.components]
    IN  /\ window' = w
        /\ ret' = [op |-> "create_validation_cards", raised |-> d.raised,
                   saved |-> IF d.raised = "none"
                             THEN << screenshot(w, <<"validation_cards", 0>>) >>
                             ELSE << >>]
        /\ UNCHANGED <<words, card_size, xy_margin, game, rd>>

Next ==
    \/ WindowOpen
    \/ DisplayWordCardsCall
    \/ CreateWordCardsCall
    \/ DisplayValidationCardsCall
    \/ CreateValidationCardsCall

Spec == Init /\ [][Next]_vars

\* display_board_cards(window, card_size, board_size=..., guess_nb=...)
DisplayBoardCardsCall ==
    /\ rd + ShuffleLoad(window, card_size, game).shuffles <= MaxShuffles
    /\ ShuffleLoad(window, card_size, game).disks <= MaxDisks
    /\ \E o \in display_board_cards(window, card_size, game) :
        /\ window' = [window EXCEPT !.components = o.components]
        /\ rd' = rd + o.shuffled
        /\ ret' = [op |-> "display_board_cards", raised |-> o.raised]
    /\ UNCHANGED <<words, card_size, xy_margin, game>>

\* create_board_cards(window, card_size, directory, board_size=..., guess_nb=...)
CreateBoardCardsCall ==
    /\ rd + 2 * ShuffleLoad(window, card_size, game).shuffles <= MaxShuffles
    /\ 2 * ShuffleLoad(window, card_size, game).disks <= MaxDisks
    /\ \E o \in create_board_cards(window, card_size, game) :
        /\ window' = [window EXCEPT !.components = o.components]
        /\ rd' = rd + o.shuffled
        /\ ret' = [op |-> "create_board_cards", raised |-> o.raised,
                   saved |-> o.saved]
    /\ UNCHANGED <<words, card_size, xy_margin, game>>

NextBoard ==
    \/ WindowOpen
    \/ DisplayWordCardsCall
    \/ DisplayValidationCardsCall
    \/ DisplayBoardCardsCall
    \/ CreateBoardCardsCall

SpecBoard == InitBoard /\ [][NextBoard]_vars

\* ------------------------------------------------------ claims on the grid

\* a call of the given operation has returned
Returned(op) == ret.op = op /\ ret.raised = "none"

\* C1: every grid that CardGrid.__init__ constructs has rows >= 1 and
\* cols >= 1 (hence capacity >= 1): construction fails whenever the cell does
\* not fit within the page minus twice the margin on either axis.
C1_ConstructedGridHasCells ==
    Returned("CardGrid") =>
        /\ ret.grid.i_max >= 1
        /\ ret.grid.j_max >= 1
        /\ ret.grid.cell_nb >= 1

\* the top-left origin of cell (r, c), from the page, the margin and the card
OriginInBounds(r, c) ==
    LET x == xy_margin[1] + c * card_size[1]
        y == xy_margin[2] + r * card_size[2]
    IN  /\ xy_margin[1] <= x /\ x < window.size[1] - xy_margin[1]
        /\ xy_margin[2] <= y /\ y < window.size[2] - xy_margin[2]

\* C2: for every constructed grid, cell_nb = rows * cols, and the origin of
\* every cell (r < rows, c < cols), as xy_enum yields it, lies within
\* [margin, page - margin) on both axes.
C2_CapacityAndOriginsInBounds ==
    (ret.op \in {"CardGrid", "xy_enum"} /\ ret.grid.raised = "none") =>
        LET g == ret.grid
        IN  /\ g.cell_nb = g.i_max * g.j_max
            /\ \A r \in 0..(g.i_max - 1), c \in 0..(g.j_max - 1) :
                   OriginInBounds(r, c)
            /\ Returned("xy_enum") =>
                   \A k \in 1..Len(ret.out) :
                       LET r == (k - 1) \div g.j_max
                           c == (k - 1) % g.j_max
                       IN  /\ r < g.i_max
                           /\ ret.out[k][1] = <<xy_margin[1] + c * card_size[1],
                                                xy_margin[2] + r * card_size[2]>>
                           /\ OriginInBounds(r, c)

\* xy_enum has placed items on a second row and a second column
C2_Witness ==
    /\ Returned("xy_enum")
    /\ Len(ret.out) >= 4
    /\ ret.grid.j_max >= 2
    /\ ret.grid.j_max < Len(ret.out)

\* C3: for n <= capacity items, ij_enum yields exactly n placements in input
\* order, the k-th item (zero-based) at row k div cols and column k mod cols,
\* so the cell indices are 0..n-1 without duplicate or gap.
C3_RowMajorPlacement ==
    (ret.op = "ij_enum" /\ Len(words) <= ret.grid.cell_nb) =>
        /\ ret.raised = "none"
        /\ Len(ret.out) = Len(words)
        /\ \A k \in 1..Len(ret.out) :
               /\ ret.out[k][2] = words[k]
               /\ ret.out[k][1][1] = (k - 1) \div ret.grid.j_max
               /\ ret.out[k][1][2] = (k - 1) % ret.grid.j_max
               /\ ret.out[k][1][1] * ret.grid.j_max + ret.out[k][1][2] = k - 1

\* ij_enum has placed at least four items on a grid with more rows than columns
C3_Witness ==
    /\ Returned("ij_enum")
    /\ Len(ret.out) >= 4
    /\ ret.grid.j_max = 2
    /\ ret.grid.i_max = 3

\* C4: overflow is not an error: with more items than cells the enumeration
\* completes without raising and yields exactly the first capacity items in
\* input order, so that placed + dropped = len(items).
C4_OverflowIsNotAnError ==
    (ret.op \in {"ij_enum", "xy_enum"} /\ Len(words) > ret.grid.cell_nb) =>
        /\ ret.raised = "none"
        /\ Len(ret.out) = ret.grid.cell_nb
        /\ \A k \in 1..Len(ret.out) : ret.out[k][2] = words[k]
        /\ Len(ret.out) + (Len(words) - ret.grid.cell_nb) = Len(words)

\* ------------------------------------------- claims on the card generators

\* the grid the card generators build for the current page and card size
PageGrid ==
    CardGrid(window.size, card_size, GRID_PARAMS.color, GRID_PARAMS.xy_margin)

\* the top-left origin of the cell of row-major index k (zero-based)
CellOrigin(k) ==
    <<GRID_PARAMS.xy_margin[1] + (k % PageGrid.j_max) * card_size[1],
      GRID_PARAMS.xy_margin[2] + (k \div PageGrid.j_max) * card_size[2]>>

\* C5: create_word_cards splits the words losslessly and in order: the pages
\* come in slice order, page k (zero-based) holds exactly
\* words[k*cap : (k+1)*cap] at cells 0..len-1, so the word of global index g
\* sits on page g div cap at cell g mod cap and no word is dropped.
C5_PagesLosslessInOrder ==
    Returned("create_word_cards") =>
        LET cap == PageGrid.cell_nb
            n == Len(words)
            pages == ret.saved
        IN  /\ cap >= 1
            /\ Len(pages) = (n + cap - 1) \div cap
            /\ \A p \in 1..Len(pages) :
                   /\ pages[p].path = <<"word_cards", p>>
                   /\ Len(pages[p].screen) =
                          1 + 3 * (IF p * cap <= n THEN cap ELSE n - (p - 1) * cap)
            /\ \A g \in 0..(n - 1) :
                   LET screen == pages[g \div cap + 1].screen
                       cell == g % cap
                       top == screen[2 + 3 * cell]
                       bot == screen[4 + 3 * cell]
                       xy == CellOrigin(cell)
                   IN  /\ top.type = "Text" /\ bot.type = "Text"
                       /\ top.text = Upper(words[g + 1])
                       /\ bot.text = Upper(words[g + 1])
                       /\ top.pos =
                            <<xy[1] + card_size[1] \div 10,
                              xy[2] + card_size[2] \div 2 - card_size[2] \div 20>>

\* create_word_cards has saved at least three pages, the last one partial
C5_Witness ==
    /\ Returned("create_word_cards")
    /\ Len(ret.saved) >= 3
    /\ PageGrid.cell_nb >= 2
    /\ Len(words) % PageGrid.cell_nb # 0

\* C7: display_validation_cards fails exactly when 2*guess_nb + 1 exceeds the
\* grid capacity; when it succeeds it emits 2*guess_nb + 1 swatches, one per
\* cell in row-major order: guess_nb of team 1's colour, guess_nb of team 2's,
\* then one blended colour last.
C7_ValidationCapacity ==
    (/\ ret.op = "display_validation_cards"
     /\ window.initiated
     /\ PageGrid.raised = "none") =>
        LET n == game.guess_nb
            c == window.components
        IN  /\ (ret.raised # "none") <=> (2 * n + 1 > PageGrid.cell_nb)
            /\ ret.raised = "none" =>
                   /\ Len(c) = 1 + 2 * n + 1
                   /\ \A k \in 1..(2 * n + 1) :
                          /\ c[k + 1].type = "Rectangle"
                          /\ c[k + 1].pos =
                               <<CellOrigin(k - 1)[1] + card_size[1] \div 2,
                                 CellOrigin(k - 1)[2] + card_size[2] \div 2>>
                          /\ c[k + 1].color =
                               IF k <= n THEN game.t1_color
                               ELSE IF k <= 2 * n THEN game.t2_color
                               ELSE Mix(game.t1_color, game.t2_color)

\* display_validation_cards has filled a grid exactly: 2*guess_nb + 1 = capacity
C7_Witness ==
    /\ Returned("display_validation_cards")
    /\ game.guess_nb >= 1
    /\ PageGrid.cell_nb = 2 * game.guess_nb + 1
    /\ Len(window.components) = 2 * game.guess_nb + 2

\* ------------------------------------------------ claims on the board cards

\* number of positions of a board card's sub-grid
Positions == game.board_size[1] * game.board_size[2]

\* number of board cards on the page: the inner grids among the components
NbCards ==
    Cardinality({k \in 1..Len(window.components) :
                    /\ window.components[k].type = "Grid"
                    /\ window.components[k].inner_grid})

\* index in window.components of the inner grid of card k (one-based)
CardAt(k) == 2 + (k - 1) * (Positions + 1)

\* the token colours of card k, in position order
CardTokens(k) ==
    [p \in 1..Positions |-> window.components[CardAt(k) + p].color]

\* display_board_cards has returned a page holding at least one board card
BoardShown ==
    /\ Returned("display_board_cards")
    /\ window.initiated
    /\ Len(window.components) > 1

C8_FailsOnlyOnNegativeNeutral ==
    (/\ ret.op = "display_board_cards"
     /\ window.initiated
     /\ PageGrid.raised = "none"
     /\ PageGrid.cell_nb >= 2) =>
        ((ret.raised # "none") <=> (2 * game.guess_nb + 1 > Positions))

\* C9: display_board_cards emits exactly one sub-grid inside every top-level
\* cell k in 0..capacity-1, in row-major order, lined in team 1's colour when
\* k is even and team 2's when k is odd, for odd and even capacities alike.
C9_OneSubGridPerCell ==
    (/\ Returned("display_board_cards")
     /\ window.initiated) =>
        /\ NbCards = PageGrid.cell_nb
        /\ \A k \in 0..(PageGrid.cell_nb - 1) :
               \E h \in 1..Len(window.components) :
                   LET c == window.components[h]
                   IN  /\ c.type = "Grid" /\ c.inner_grid
                       /\ c.xbounds[1] = CellOrigin(k)[1]
                       /\ c.ybounds[1] = CellOrigin(k)[2]
                       /\ c.color = IF k % 2 = 0
                                    THEN game.t1_color ELSE game.t2_color

\* ------------------------------------------------------ claims on the window

\* the components are one top-level grid followed by n primitives of the types
IsPage(n, types) ==
    /\ Len(window.components) = 1 + n
    /\ window.components[1] =
           [GridComponent(PageGrid) EXCEPT !.color = game.grid_c]
    /\ \A k \in 2..Len(window.components) :
           /\ window.components[k].type \in types
           /\ window.components[k].type = "Grid" =>
                  window.components[k].inner_grid

\* C10: once display_word_cards, display_validation_cards or
\* display_board_cards returns normally, window.components holds only that
\* call's output: one top-level grid first, then that call's primitives, and
\* nothing left over from an earlier call.
C10_OnlyThisCallsOutput ==
    /\ Returned("display_word_cards") =>
           /\ IsPage(3 * (IF Len(words) <= PageGrid.cell_nb
                          THEN Len(words) ELSE PageGrid.cell_nb),
                     {"Text", "Rectangle"})
           /\ \A k \in 2..Len(window.components) :
                  window.components[k].type = "Text" =>
                      window.components[k].text
                          = Upper(words[(k - 2) \div 3 + 1])
    /\ Returned("display_validation_cards") =>
           IsPage(2 * game.guess_nb + 1, {"Rectangle"})
    /\ Returned("display_board_cards") =>
           IsPage(2 * (PageGrid.cell_nb \div 2) * (Positions + 1),
                  {"Grid", "Disk"})

\* a page of swatches is shown on a window that showed shuffled board cards
C10_Witness ==
    /\ Returned("display_validation_cards")
    /\ Len(window.components) >= 2
    /\ rd = 2

====
